---- MODULE Spec2Model ----
(***************************************************************************)
(* Model of src/outline.rs: the outline view over the three FT_Outline     *)
(* buffers, ContourIterator (one CurveIterator per contour) and            *)
(* CurveIterator (the decoder of one contour into Line / Bezier2 /         *)
(* Bezier3 segments).                                                      *)
(*                                                                         *)
(* Buffers are 1-based sequences here; every index of the source (0-based) *)
(* is kept 0-based in the iterator state and shifted by one at the read.   *)
(***************************************************************************)
EXTENDS Integers, Sequences, FiniteSets, TLC

\* ------------------------------------------------------------------ bounds
\* Largest n_points of an outline.
MaxPoints == 4

\* --------------------------------------------------------------- constants
TAG_MASK == 3
TAG_ONCURVE == 1
TAG_BEZIER2 == 0
TAG_BEZIER3 == 2

\* ------------------------------------------------------------------- state
VARIABLES
    points,            \* FT_Outline.points  (Outline::points)
    tags,              \* FT_Outline.tags    (Outline::tags)
    contours,          \* FT_Outline.contours (Outline::contours)
    debug_assertions,  \* the build: TRUE when debug_assert! is compiled in
    contour_start,     \* ContourIterator.contour_start
    contour_end_idx,   \* ContourIterator.contour_end_idx, as an offset from outline.contours
    contour_none,      \* history: ContourIterator::next has returned None
    curves,            \* the CurveIterators yielded so far, in order: [start_idx, idx, length]
    status,            \* history, per CurveIterator: "ready", "none" (next returned None), "abort" (next panicked)
    out,               \* history, per CurveIterator: the yields of next, [from, shift, curve]
    started            \* history, per CurveIterator: the outcome of a start() call, or NotCalled

vars == <<points, tags, contours, debug_assertions, contour_start, contour_end_idx,
          contour_none, curves, status, out, started>>

\* ------------------------------------------------------------------ values
\* Vector { x, y } is the pair <<x, y>>.  The decoder never branches on a
\* coordinate, it copies points and averages them: the point buffer is a
\* prefix of SamplePoints (distinct points, sums of either sign and parity).
SamplePoints ==
    << <<0, 0>>, <<-3, 8>>, <<10, -5>>, <<-7, -7>>, <<5, 5>>, <<10, 10>>, <<1, -4>> >>

Window(n) == [i \in 1..n |-> SamplePoints[((i - 1) % Len(SamplePoints)) + 1]]

\* The tag values: the three classifications 0, 1, 2, and values with a bit
\* set above TAG_MASK: 4 = 0b100, whose two low bits are TAG_BEZIER2, and
\* 5 = 0b101, whose two low bits are not.  The code tests a tag for equality
\* with the three constants and its low bits for equality with TAG_BEZIER2:
\* every other c_char (3 = 0b11 among them) takes the path of 4 or of 5.
TagValues == {0, 1, 2, 4, 5}

\* n_contours: an outline has one or two contours (none when it has no
\* point).  CurveIterators share nothing but the read-only buffers, and two of
\* them are enough to interleave.
ContourCounts == 1..2

\* enum Curve
Line(p) == [kind |-> "Line", pts |-> <<p>>]
Bezier2(c, e) == [kind |-> "Bezier2", pts |-> <<c, e>>]
Bezier3(c1, c2, e) == [kind |-> "Bezier3", pts |-> <<c1, c2, e>>]

\* Bitwise and of two non-negative integers.
RECURSIVE BitAnd(_, _)
BitAnd(a, b) ==
    IF a = 0 \/ b = 0 THEN 0
    ELSE (IF a % 2 = 1 /\ b % 2 = 1 THEN 1 ELSE 0) + 2 * BitAnd(a \div 2, b \div 2)

\* Rust's integer division by two: it truncates towards zero.
Div2(n) == IF n >= 0 THEN n \div 2 ELSE -((-n) \div 2)

middle_point(pt1, pt2) == <<Div2(pt1[1] + pt2[1]), Div2(pt1[2] + pt2[2])>>

\* The raw ffi::FT_Outline the views and iterators borrow.
raw == [points |-> points, tags |-> tags, contours |-> contours]

\* Outline accessors.
n_points == Len(points)
n_contours == Len(contours)

\* The outcomes of a call.
NotCalled == [kind |-> "uncalled"]
Abort == [kind |-> "abort"]
None == [kind |-> "none"]
Value(v) == [kind |-> "value", v |-> v]
Some(shift, curve) == [kind |-> "some", shift |-> shift, curve |-> curve]

\* ------------------------------------------------------------- CurveIterator
\* A CurveIterator is [start_idx, idx, length]: start_point and start_tag are
\* outline.points and outline.tags advanced by start_idx.  Reads through
\* them, at offset j, in the outline o they point into:
PointAt(o, it, j) == o.points[it.start_idx + j + 1]
TagAt(o, it, j) == o.tags[it.start_idx + j + 1]

\* A from_raw that puts the deferred cursor two before the first point
from_rawTwoBefore(o, start_idx, end_idx) ==
    [start_idx |-> start_idx,
     idx |-> IF BitAnd(o.tags[start_idx + 1], TAG_MASK) = TAG_BEZIER2 THEN -2 ELSE 0,
     length |-> end_idx - start_idx + 1]

\* CurveIterator::from_raw
from_raw(o, start_idx, end_idx) ==
    [start_idx |-> start_idx,
     idx |-> IF BitAnd(o.tags[start_idx + 1], TAG_MASK) = TAG_BEZIER2 THEN -1 ELSE 0,
     length |-> end_idx - start_idx + 1]

\* CurveIterator::start
start(o, it) ==
    IF BitAnd(TagAt(o, it, 0), TAG_MASK) = TAG_BEZIER2
    THEN CASE TagAt(o, it, it.length - 1) = TAG_ONCURVE ->
                  Value(PointAt(o, it, it.length - 1))
           [] TagAt(o, it, it.length - 1) = TAG_BEZIER2 ->
                  Value(middle_point(PointAt(o, it, it.length - 1), PointAt(o, it, 0)))
           [] OTHER -> Abort
    ELSE Value(PointAt(o, it, 0))

\* A lookup that reduces the offset modulo the contour's length
ReadIndexModular(it, i) == (it.idx + i) % it.length

\* The offset from start_point / start_tag that pt(i) and tg(i) read:
\* idx + i, or the contour's first entry once idx + i reaches length.
ReadIndex(it, i) == IF it.idx + i < it.length THEN it.idx + i ELSE 0

\* CurveIterator::pt
pt(o, it, i) == PointAt(o, it, ReadIndex(it, i))

\* CurveIterator::tg
tg(o, it, i) == TagAt(o, it, ReadIndex(it, i))

\* A next without the early return at the contour's last index.
AtLastIndexNever(it) == FALSE

\* The early return of next at the contour's last index.
AtLastIndex(it) == it.idx = it.length - 1

\* A quadratic arm that advances by 2 past an implied midpoint as well
QuadraticArmSkips(o, it) ==
    IF AtLastIndex(it) THEN None
    ELSE CASE tg(o, it, 2) = TAG_ONCURVE -> Some(2, Bezier2(pt(o, it, 1), pt(o, it, 2)))
           [] tg(o, it, 2) = TAG_BEZIER2 ->
                  Some(2, Bezier2(pt(o, it, 1), middle_point(pt(o, it, 1), pt(o, it, 2))))
           [] OTHER -> Abort

\* The quadratic arm of next.
QuadraticArm(o, it) ==
    IF AtLastIndex(it) THEN None
    ELSE CASE tg(o, it, 2) = TAG_ONCURVE -> Some(2, Bezier2(pt(o, it, 1), pt(o, it, 2)))
           [] tg(o, it, 2) = TAG_BEZIER2 ->
                  Some(1, Bezier2(pt(o, it, 1), middle_point(pt(o, it, 1), pt(o, it, 2))))
           [] OTHER -> Abort

\* The two debug_assert! of the cubic arm.
CubicPattern(o, it) == tg(o, it, 2) = TAG_BEZIER3 /\ tg(o, it, 3) = TAG_ONCURVE

\* The cubic arm of next: the assertions exist in a build with debug
\* assertions only.
CubicArm(o, it) ==
    IF debug_assertions /\ ~CubicPattern(o, it) THEN Abort
    ELSE Some(3, Bezier3(pt(o, it, 1), pt(o, it, 2), pt(o, it, 3)))

\* The outcome of <CurveIterator as Iterator>::next in the iterator state it.
next(o, it) ==
    IF it.idx >= it.length THEN None
    ELSE CASE tg(o, it, 1) = TAG_ONCURVE -> Some(1, Line(pt(o, it, 1)))
           [] tg(o, it, 1) = TAG_BEZIER2 -> QuadraticArm(o, it)
           [] tg(o, it, 1) = TAG_BEZIER3 -> CubicArm(o, it)
           [] OTHER -> Abort

\* The offsets i at which a call of next in the iterator state it calls
\* tg(i) or pt(i).  The second debug_assert! is evaluated only when the first
\* one holds.
lookups(o, it) ==
    IF it.idx >= it.length THEN {}
    ELSE CASE tg(o, it, 1) = TAG_ONCURVE -> {1}
           [] tg(o, it, 1) = TAG_BEZIER2 -> IF AtLastIndex(it) THEN {1} ELSE {1, 2}
           [] tg(o, it, 1) = TAG_BEZIER3 ->
                  IF debug_assertions /\ tg(o, it, 2) /= TAG_BEZIER3 THEN {1, 2} ELSE {1, 2, 3}
           [] OTHER -> {1}

\* The offsets from start_point / start_tag that start reads.
start_reads(o, it) ==
    IF BitAnd(TagAt(o, it, 0), TAG_MASK) = TAG_BEZIER2 THEN {0, it.length - 1} ELSE {0}

\* ----------------------------------------------------------- ContourIterator
\* ContourIterator.last_end_idx, as an offset from outline.contours
last_end_idx == n_contours

\* A ContourIterator that starts the next contour on the last point of the
\* one before.
NextContourStartOnEnd(contour_end) == contour_end

\* contour_start after a contour ending at contour_end has been yielded
NextContourStart(contour_end) == contour_end + 1

\* --------------------------------------------------------------------- Init
\* The contour end offsets of an outline of n points: ascending, the last one
\* the last point (FT_Outline's own invariant); no contour when n = 0.
ContourLists(n) ==
    IF n = 0 THEN {<<>>}
    ELSE {c \in UNION {[1..k -> 0..(n - 1)] : k \in ContourCounts} :
             /\ c[Len(c)] = n - 1
             /\ \A i \in 1..(Len(c) - 1) : c[i] < c[i + 1]}

Init ==
    /\ \E n \in 0..MaxPoints :
          /\ points = Window(n)
          /\ tags \in [1..n -> TagValues]
          /\ contours \in ContourLists(n)
    /\ debug_assertions \in BOOLEAN
    /\ contour_start = 0
    /\ contour_end_idx = 0
    /\ contour_none = FALSE
    /\ curves = <<>>
    /\ status = <<>>
    /\ out = <<>>
    /\ started = <<>>

\* ------------------------------------------------------------------ actions
\* <ContourIterator as Iterator>::next
ContourNext ==
    /\ IF contour_end_idx >= last_end_idx
       THEN /\ contour_none' = TRUE
            /\ UNCHANGED <<contour_start, contour_end_idx, curves, status, out, started>>
       ELSE LET contour_end == contours[contour_end_idx + 1] IN
            /\ curves' = Append(curves, from_raw(raw, contour_start, contour_end))
            /\ contour_start' = NextContourStart(contour_end)
            /\ contour_end_idx' = contour_end_idx + 1
            /\ status' = Append(status, "ready")
            /\ out' = Append(out, <<>>)
            /\ started' = Append(started, NotCalled)
            /\ UNCHANGED contour_none
    /\ UNCHANGED <<points, tags, contours, debug_assertions>>

\* A panic unwinds the caller: no further call is made on that iterator.
Alive(k) == status[k] /= "abort" /\ started[k] /= Abort

\* A next whose cursor is one cell shared by all the curve iterators
CurveNextSharedCursor(k) ==
    /\ Alive(k)
    /\ LET it == curves[k]
           r == next(raw, it)
       IN  CASE r.kind = "some" ->
                    /\ curves' = [j \in DOMAIN curves |-> [curves[j] EXCEPT !.idx = it.idx + r.shift]]
                    /\ out' = [out EXCEPT ![k] =
                                  Append(@, [from |-> it.idx, shift |-> r.shift, curve |-> r.curve])]
                    /\ UNCHANGED status
             [] r.kind = "none" ->
                    /\ status' = [status EXCEPT ![k] = "none"]
                    /\ UNCHANGED <<curves, out>>
             [] OTHER ->
                    /\ status' = [status EXCEPT ![k] = "abort"]
                    /\ UNCHANGED <<curves, out>>
    /\ UNCHANGED <<contour_start, contour_end_idx, contour_none, started>>
    /\ UNCHANGED <<points, tags, contours, debug_assertions>>

\* A next that rewinds the cursor to the contour's first point when it
\* returns None
CurveNextRewinds(k) ==
    /\ Alive(k)
    /\ LET it == curves[k]
           r == next(raw, it)
       IN  CASE r.kind = "some" ->
                    /\ curves' = [curves EXCEPT ![k].idx = it.idx + r.shift]
                    /\ out' = [out EXCEPT ![k] =
                                  Append(@, [from |-> it.idx, shift |-> r.shift, curve |-> r.curve])]
                    /\ UNCHANGED status
             [] r.kind = "none" ->
                    /\ status' = [status EXCEPT ![k] = "none"]
                    /\ curves' = [curves EXCEPT ![k].idx = 0]
                    /\ UNCHANGED out
             [] OTHER ->
                    /\ status' = [status EXCEPT ![k] = "abort"]
                    /\ UNCHANGED <<curves, out>>
    /\ UNCHANGED <<contour_start, contour_end_idx, contour_none, started>>
    /\ UNCHANGED <<points, tags, contours, debug_assertions>>

\* <CurveIterator as Iterator>::next on the k-th iterator
CurveNext(k) ==
    /\ Alive(k)
    /\ LET it == curves[k]
           r == next(raw, it)
       IN  CASE r.kind = "some" ->
                    /\ curves' = [curves EXCEPT ![k].idx = it.idx + r.shift]
                    /\ out' = [out EXCEPT ![k] =
                                  Append(@, [from |-> it.idx, shift |-> r.shift, curve |-> r.curve])]
                    /\ UNCHANGED status
             [] r.kind = "none" ->
                    /\ status' = [status EXCEPT ![k] = "none"]
                    /\ UNCHANGED <<curves, out>>
             [] OTHER ->
                    /\ status' = [status EXCEPT ![k] = "abort"]
                    /\ UNCHANGED <<curves, out>>
    /\ UNCHANGED <<contour_start, contour_end_idx, contour_none, started>>
    /\ UNCHANGED <<points, tags, contours, debug_assertions>>

\* CurveIterator::start on the k-th iterator
CurveStart(k) ==
    /\ Alive(k)
    /\ started' = [started EXCEPT ![k] = start(raw, curves[k])]
    /\ UNCHANGED <<contour_start, contour_end_idx, contour_none, curves, status, out>>
    /\ UNCHANGED <<points, tags, contours, debug_assertions>>

Next ==
    \/ ContourNext
    \/ \E k \in 1..Len(curves) : CurveNext(k)
    \/ \E k \in 1..Len(curves) : CurveStart(k)

Spec == Init /\ [][Next]_vars

\* ------------------------------------------------------------------ claims
\* Vocabulary of the claims.  A point is classified by the two low bits of
\* its tag; offsets from the cursor are looked up circularly (an index at or
\* beyond the contour's length is the contour's first point).
Iters == 1..Len(curves)
Class(t) == t % 4
LocalTag(k, j) == tags[curves[k].start_idx + j + 1]
LocalPoint(k, j) == points[curves[k].start_idx + j + 1]
Look(k, i, off) == IF i + off < curves[k].length THEN i + off ELSE 0
ClassAt(k, i, off) == Class(LocalTag(k, Look(k, i, off)))
PointAhead(k, i, off) == LocalPoint(k, Look(k, i, off))
EndOf(c) == c.pts[Len(c.pts)]
\* h is s / 2 rounded towards zero
Half(s, h) ==
    \/ s >= 0 /\ 2 * h <= s /\ s <= 2 * h + 1
    \/ s < 0 /\ 2 * h >= s /\ s >= 2 * h - 1
IsMidpoint(m, a, b) == Half(a[1] + b[1], m[1]) /\ Half(a[2] + b[2], m[2])
Yields(k) == 1..Len(out[k])

\* C1: the path is closed: once next() has returned None, the end point of
\* the last segment it yielded is the point start() returns for the contour.
C1_ClosedPath ==
    \A k \in Iters :
        (status[k] = "none" /\ started[k].kind = "value")
            => /\ Len(out[k]) >= 1
               /\ EndOf(out[k][Len(out[k])].curve) = started[k].v

\* C2: a malformed tag sequence is never decoded: no segment is yielded, and
\* no None returned, by a call that meets a cubic control at +1 not followed
\* by a cubic control at +2 and an on-curve point at +3, a quadratic control
\* at +1 followed by a cubic control at +2, or an unclassified tag at +1.
Malformed(k, i) ==
    \/ /\ ClassAt(k, i, 1) = TAG_BEZIER3
       /\ ~(ClassAt(k, i, 2) = TAG_BEZIER3 /\ ClassAt(k, i, 3) = TAG_ONCURVE)
    \/ ClassAt(k, i, 1) = TAG_BEZIER2 /\ ClassAt(k, i, 2) = TAG_BEZIER3
    \/ ClassAt(k, i, 1) \notin {TAG_ONCURVE, TAG_BEZIER2, TAG_BEZIER3}

C2_MalformedRejected ==
    \A k \in Iters :
        /\ \A n \in Yields(k) : ~Malformed(k, out[k][n].from)
        /\ (status[k] = "none" /\ curves[k].idx < curves[k].length)
               => ~Malformed(k, curves[k].idx)

\* C3: only the two low bits of a tag matter: construction, start() and
\* next() give on the outline what they give on the same outline with every
\* tag reduced to its two low bits.
MaskedRaw == [raw EXCEPT !.tags = [i \in DOMAIN tags |-> Class(tags[i])]]

C3_LowBitsOnly ==
    \A k \in Iters :
        LET it == curves[k] IN
        /\ from_raw(raw, it.start_idx, it.start_idx + it.length - 1)
               = from_raw(MaskedRaw, it.start_idx, it.start_idx + it.length - 1)
        /\ start(raw, it) = start(MaskedRaw, it)
        /\ Alive(k) => next(raw, it) = next(MaskedRaw, it)

\* C4: start() resolves the start point by the classes of point 0 and point
\* L-1: point 0 when it is on-curve; point L-1 when point 0 is a quadratic
\* control and point L-1 on-curve; their midpoint when both are quadratic
\* controls.
C4_StartResolution ==
    \A k \in Iters :
        started[k] /= NotCalled =>
            LET L == curves[k].length
                first == Class(LocalTag(k, 0))
                last == Class(LocalTag(k, L - 1))
            IN  /\ first = TAG_ONCURVE => started[k] = Value(LocalPoint(k, 0))
                /\ (first = TAG_BEZIER2 /\ last = TAG_ONCURVE)
                       => started[k] = Value(LocalPoint(k, L - 1))
                /\ (first = TAG_BEZIER2 /\ last = TAG_BEZIER2)
                       => /\ started[k].kind = "value"
                          /\ IsMidpoint(started[k].v, LocalPoint(k, L - 1), LocalPoint(k, 0))

\* C5: ContourIterator yields one CurveIterator per contour end offset, in
\* order, and then None; the k-th covers [s_k, e_k] with s_1 = 0 and
\* s_(k+1) = e_k + 1; when the last end offset is n_points - 1 the ranges
\* partition the point indices.
RangeOf(k) == curves[k].start_idx .. (curves[k].start_idx + curves[k].length - 1)

C5_ContourRanges ==
    /\ Len(curves) = contour_end_idx
    /\ Len(curves) <= n_contours
    /\ contour_none => Len(curves) = n_contours
    /\ \A k \in Iters :
          /\ curves[k].start_idx = (IF k = 1 THEN 0 ELSE contours[k - 1] + 1)
          /\ curves[k].length = contours[k] - curves[k].start_idx + 1
    /\ (contour_none /\ n_contours > 0 /\ contours[n_contours] = n_points - 1)
          => \A i \in 0..(n_points - 1) :
                 Cardinality({k \in Iters : i \in RangeOf(k)}) = 1

C5_Witness ==
    /\ contour_none
    /\ Len(curves) = 2
    /\ curves[2].start_idx = contours[1] + 1
    /\ curves[1].length >= 2

\* C6: two consecutive quadratic controls ahead of a cursor that is not at
\* L-1 give one Bezier2: its control the point at +1, its end the midpoint of
\* the points at +1 and +2, the cursor advanced by 1, and the point at +2 the
\* control of the segment yielded next.
QuadPair(k, i) ==
    /\ i /= curves[k].length - 1
    /\ ClassAt(k, i, 1) = TAG_BEZIER2
    /\ ClassAt(k, i, 2) = TAG_BEZIER2

Stopped(k) == status[k] \in {"abort", "none"} /\ curves[k].idx < curves[k].length

C6_QuadraticPair ==
    \A k \in Iters :
        /\ \A n \in Yields(k) :
              LET e == out[k][n] IN
              QuadPair(k, e.from) =>
                  /\ e.shift = 1
                  /\ e.curve.kind = "Bezier2"
                  /\ e.curve.pts[1] = PointAhead(k, e.from, 1)
                  /\ IsMidpoint(e.curve.pts[2], PointAhead(k, e.from, 1), PointAhead(k, e.from, 2))
                  /\ (n + 1) \in Yields(k)
                         => out[k][n + 1].curve.pts[1] = PointAhead(k, e.from, 2)
        /\ Stopped(k) => ~QuadPair(k, curves[k].idx)

\* C7: a contour whose points are all on-curve decodes to L segments, all of
\* them Line, the n-th (from 0) ending at point (n + 1) mod L.
AllOnCurve(k) == \A j \in 0..(curves[k].length - 1) : Class(LocalTag(k, j)) = TAG_ONCURVE

C7_AllOnCurveLines ==
    \A k \in Iters :
        AllOnCurve(k) =>
            /\ status[k] /= "abort"
            /\ Len(out[k]) <= curves[k].length
            /\ status[k] = "none" => Len(out[k]) = curves[k].length
            /\ \A n \in Yields(k) :
                  out[k][n].curve = Line(LocalPoint(k, n % curves[k].length))

\* C8: decoding a contour is bounded by its length: at most L segments are
\* yielded, and every yield moves the cursor forward by 1, 2 or 3.
C8_BoundedDecode ==
    \A k \in Iters :
        /\ Len(out[k]) <= curves[k].length
        /\ \A n \in Yields(k) :
              /\ out[k][n].shift \in 1..3
              /\ out[k][n].from < curves[k].length
              /\ IF n < Len(out[k])
                 THEN out[k][n + 1].from = out[k][n].from + out[k][n].shift
                 ELSE curves[k].idx = out[k][n].from + out[k][n].shift

C8_Witness ==
    \E k \in Iters :
        /\ status[k] = "none"
        /\ curves[k].length >= 3
        /\ Len(out[k]) = curves[k].length
        /\ out[k][1].from = -1

\* C9: a cubic control, a cubic control and an on-curve point ahead of the
\* cursor give one Bezier3 of the points at +1, +2 and +3, the cursor
\* advanced by 3.
CubicSeq(k, i) ==
    /\ ClassAt(k, i, 1) = TAG_BEZIER3
    /\ ClassAt(k, i, 2) = TAG_BEZIER3
    /\ ClassAt(k, i, 3) = TAG_ONCURVE

C9_CubicSegment ==
    \A k \in Iters :
        /\ \A n \in Yields(k) :
              LET e == out[k][n] IN
              CubicSeq(k, e.from) =>
                  /\ e.shift = 3
                  /\ e.curve = Bezier3(PointAhead(k, e.from, 1), PointAhead(k, e.from, 2),
                                       PointAhead(k, e.from, 3))
        /\ Stopped(k) => ~CubicSeq(k, curves[k].idx)

\* C10: a quadratic control between two on-curve points gives one Bezier2
\* with that point as control and the on-curve point after it as end, the
\* cursor advanced by 2, also when that end is point 0 reached by wraparound:
\* a contour ON, QUAD, ON, QUAD decodes to two Bezier2, the second ending at
\* point 0.
Behind(k, i) == IF i < 0 THEN curves[k].length - 1 ELSE i

SingleQuad(k, i) ==
    /\ Class(LocalTag(k, Behind(k, i))) = TAG_ONCURVE
    /\ ClassAt(k, i, 1) = TAG_BEZIER2
    /\ ClassAt(k, i, 2) = TAG_ONCURVE

OnQuadOnQuad(k) ==
    /\ curves[k].length = 4
    /\ \A j \in 0..3 : Class(LocalTag(k, j)) = (IF j % 2 = 0 THEN TAG_ONCURVE ELSE TAG_BEZIER2)

C10_SingleQuadratic ==
    \A k \in Iters :
        /\ \A n \in Yields(k) :
              LET e == out[k][n] IN
              SingleQuad(k, e.from) =>
                  /\ e.shift = 2
                  /\ e.curve = Bezier2(PointAhead(k, e.from, 1), PointAhead(k, e.from, 2))
        /\ Stopped(k) => ~SingleQuad(k, curves[k].idx)
        /\ OnQuadOnQuad(k) =>
              /\ status[k] /= "abort"
              /\ Len(out[k]) <= 2
              /\ status[k] = "none" =>
                    /\ Len(out[k]) = 2
                    /\ out[k][1].curve = Bezier2(LocalPoint(k, 1), LocalPoint(k, 2))
                    /\ out[k][2].curve = Bezier2(LocalPoint(k, 3), LocalPoint(k, 0))

\* ------------------------------------------------------------------- C11

AllQuadratic(k) == \A j \in 0..(curves[k].length - 1) : Class(LocalTag(k, j)) = TAG_BEZIER2

\* C11: in a contour whose points are all quadratic controls, start() is the
\* midpoint of point L-1 and point 0, the n-th segment yielded (n = 1..L) is
\* Bezier2(point n-1, midpoint(point n-1, point n mod L)), the decode never
\* aborts, and it stops after exactly L segments, closed back on start().
C11_AllQuadratic ==
    \A k \in Iters :
        LET L == curves[k].length IN
        AllQuadratic(k) =>
            /\ started[k] /= NotCalled =>
                  /\ started[k].kind = "value"
                  /\ IsMidpoint(started[k].v, LocalPoint(k, L - 1), LocalPoint(k, 0))
            /\ status[k] /= "abort"
            /\ Len(out[k]) <= L
            /\ \A n \in Yields(k) :
                  LET c == out[k][n].curve IN
                  /\ c.kind = "Bezier2"
                  /\ c.pts[1] = LocalPoint(k, n - 1)
                  /\ IsMidpoint(c.pts[2], LocalPoint(k, n - 1), LocalPoint(k, n % L))
            /\ status[k] = "none" =>
                  /\ Len(out[k]) = L
                  /\ started[k].kind = "value" => EndOf(out[k][L].curve) = started[k].v

\* ------------------------------------------------------------------- C12

\* The iterator the contour iterator builds for the k-th contour
ContourFirst(k) == IF k = 1 THEN 0 ELSE contours[k - 1] + 1
Fresh(k) == from_raw(raw, ContourFirst(k), contours[k])

\* The first n segments a curve iterator yields when nothing else runs
RECURSIVE Alone(_, _)
Alone(it, n) ==
    IF n = 0 THEN <<>>
    ELSE LET r == next(raw, it) IN
         IF r.kind = "some"
         THEN << [from |-> it.idx, shift |-> r.shift, curve |-> r.curve] >>
                  \o Alone([it EXCEPT !.idx = it.idx + r.shift], n - 1)
         ELSE <<>>

RECURSIVE AloneCursor(_, _)
AloneCursor(it, n) ==
    IF n = 0 THEN it
    ELSE LET r == next(raw, it) IN
         IF r.kind = "some" THEN AloneCursor([it EXCEPT !.idx = it.idx + r.shift], n - 1) ELSE it

\* what the iterator's decode ends with after its n-th segment when run alone
AloneEnd(it, n) ==
    LET r == next(raw, AloneCursor(it, n)) IN
    IF r.kind = "none" THEN "none" ELSE IF r.kind = "some" THEN "ready" ELSE "abort"

SameAsAlone ==
    \A k \in Iters :
        /\ out[k] = Alone(Fresh(k), Len(out[k]))
        /\ curves[k] = AloneCursor(Fresh(k), Len(out[k]))
        /\ status[k] /= "ready" => status[k] = AloneEnd(Fresh(k), Len(out[k]))
        /\ started[k] /= NotCalled => started[k] = start(raw, Fresh(k))

BuffersKept == points' = points /\ tags' = tags /\ contours' = contours

FirstClass(k) == Class(LocalTag(k, 0))
LastClass(k) == Class(LocalTag(k, curves[k].length - 1))

\* the three boundary combinations start() is said to resolve
Resolved(k) ==
    \/ FirstClass(k) = TAG_ONCURVE
    \/ FirstClass(k) = TAG_BEZIER2 /\ LastClass(k) \in {TAG_ONCURVE, TAG_BEZIER2}

\* C13: for every boundary tag combination other than the three it
\* resolves (point 0 a cubic control; point 0 quadratic and point L-1 cubic),
\* start() reports a malformed outline and never returns a coordinate.
C13_StartRejects ==
    \A k \in Iters :
        (started[k] /= NotCalled /\ ~Resolved(k)) => started[k] = Abort

\* ------------------------------------------------------------------- C14

\* C14: circular lookup is modular: every lookup next() performs at local
\* index j = idx + i returns the entry at index j mod L; a lookup at j >= L
\* returns point 0 and then j is never greater than L.
C14_ModularLookup ==
    \A k \in Iters :
        LET it == curves[k] IN
        \A i \in lookups(raw, it) :
            /\ ReadIndex(it, i) = (it.idx + i) % it.length
            /\ it.idx + i >= it.length => it.idx + i = it.length

\* C14 (amended): every lookup next() performs at local index j = idx + i
\* returns the entry at index j when j < L and the entry at index 0 when
\* j >= L; that is the entry at j mod L whenever j <= L, but j can be greater
\* than L (at most L + 2), and the entry returned is still the one at index 0.
C14_WrapToFirst ==
    \A k \in Iters :
        LET it == curves[k] IN
        \A i \in lookups(raw, it) :
            LET j == it.idx + i IN
            /\ j >= 0 /\ j <= it.length + 2
            /\ j < it.length => ReadIndex(it, i) = j
            /\ j >= it.length => ReadIndex(it, i) = 0
            /\ j <= it.length => ReadIndex(it, i) = j % it.length

\* a call of next() has looked up an index greater than L in a contour of two
\* or more points, and another call has looked up index L and yielded
C14_Witness ==
    /\ \E k \in Iters :
          /\ curves[k].length >= 2 /\ status[k] = "abort"
          /\ \E i \in lookups(raw, curves[k]) : curves[k].idx + i > curves[k].length
    /\ \E k \in Iters : \E n \in Yields(k) :
          out[k][n].from + out[k][n].shift = curves[k].length

\* ------------------------------------------------------------------- C15

SinglePoint(k) == curves[k].length = 1

\* C15: a single-point contour decodes to exactly one degenerate segment whose
\* end point equals start(): Line(point 0) when the point is on-curve,
\* Bezier2(point 0, point 0) when it is a quadratic control; the decode never
\* aborts and the call after the segment returns None.
C15_SinglePoint ==
    \A k \in Iters :
        (SinglePoint(k) /\ FirstClass(k) \in {TAG_ONCURVE, TAG_BEZIER2}) =>
            LET p0 == LocalPoint(k, 0) IN
            /\ status[k] /= "abort"
            /\ started[k] /= NotCalled => started[k] = Value(p0)
            /\ Len(out[k]) <= 1
            /\ \A n \in Yields(k) :
                  out[k][n].curve = (IF FirstClass(k) = TAG_ONCURVE THEN Line(p0)
                                                                   ELSE Bezier2(p0, p0))
            /\ status[k] = "none" => Len(out[k]) = 1
            /\ Len(out[k]) = 1 => next(raw, curves[k]) = None

\* ------------------------------------------------------------------- C16

\* local index j lies inside the k-th iterator's contour and inside the buffers
InContour(k, j) ==
    /\ 0 <= j /\ j <= curves[k].length - 1
    /\ 0 <= curves[k].start_idx + j /\ curves[k].start_idx + j < n_points
    /\ curves[k].start_idx + j < Len(tags)

\* the reads made so far and those of the next call are inside the contour
ReadsInBounds ==
    \A k \in Iters :
        LET it == curves[k] IN
        /\ it.length >= 1
        /\ InContour(k, 0)
        /\ it.idx < it.length => InContour(k, ReadIndex(it, 1))
        /\ \A j \in start_reads(raw, it) : InContour(k, j)
        /\ \A i \in lookups(raw, it) : InContour(k, ReadIndex(it, i))

\* C16: bounds safety: for every contour (L >= 1), after any sequence of
\* start() and next() calls, the read from_raw made (local index 0), the reads
\* of start() and every lookup the next call of next() performs through pt()
\* and tg() are at a local index within [0, L-1]; the initial cursor -1 never
\* leads to a read at a negative index.
C16_ReadsInBounds == [] ReadsInBounds

\* a decode that began with the cursor at -1 has run to its end, reading past
\* the last point on the way, and start() has read the last point
C16_Witness ==
    \E k \in Iters :
        /\ curves[k].length >= 2
        /\ Len(out[k]) >= 1 /\ out[k][1].from = -1
        /\ \E n \in Yields(k) : out[k][n].from + 2 >= curves[k].length
        /\ started[k].kind = "value"
        /\ status[k] = "none"

\* ------------------------------------------------------------------- C17

\* the cubic-pattern assertions of next() hold at every Bezier3 yielded
AssertionsHeld(k) ==
    \A n \in Yields(k) :
        out[k][n].curve.kind = "Bezier3" =>
            /\ LocalTag(k, Look(k, out[k][n].from, 2)) = TAG_BEZIER3
            /\ LocalTag(k, Look(k, out[k][n].from, 3)) = TAG_ONCURVE

Completed(k) == status[k] = "none" /\ AssertionsHeld(k)

\* the n-th segment ends on point j itself (not on an implied midpoint)
EndsAt(k, n, j) ==
    LET e == out[k][n] IN
    /\ ~(e.curve.kind = "Bezier2" /\ e.shift = 1)
    /\ Look(k, e.from, e.shift) = j
    /\ EndOf(e.curve) = LocalPoint(k, j)

\* the control slots <<n, s>> of the yielded segments that hold point j
ControlSlots(k, j) ==
    {ns \in Yields(k) \X {1, 2} :
        LET e == out[k][ns[1]] IN
        /\ ns[2] < Len(e.curve.pts)
        /\ Look(k, e.from, ns[2]) = j
        /\ e.curve.pts[ns[2]] = LocalPoint(k, j)}

\* C17: every source point is consumed exactly once: in a decode that ran to
\* None without aborting (a violated cubic-pattern assertion counts as an
\* abort), each on-curve point is the end point of exactly one yielded segment
\* and each quadratic or cubic control is a control of exactly one yielded
\* segment; no point is skipped and the early stop duplicates nothing.
C17_ConsumedOnce ==
    \A k \in Iters :
        Completed(k) =>
            \A j \in 0..(curves[k].length - 1) :
                /\ Class(LocalTag(k, j)) = TAG_ONCURVE =>
                      Cardinality({n \in Yields(k) : EndsAt(k, n, j)}) = 1
                /\ Class(LocalTag(k, j)) \in {TAG_BEZIER2, TAG_BEZIER3} =>
                      Cardinality(ControlSlots(k, j)) = 1

\* a completed decode of three or more points that took a quadratic segment
\* with an explicit end point and then stopped early at the last index
C17_Witness ==
    \E k \in Iters :
        /\ Completed(k) /\ curves[k].length >= 3
        /\ curves[k].idx = curves[k].length - 1
        /\ \E n \in Yields(k) : out[k][n].shift = 2

\* ------------------------------------------------------------------- C18

\* the call that follows a None returns None again
FusedState ==
    /\ \A k \in Iters : status[k] = "none" => next(raw, curves[k]) = None
    /\ contour_none => contour_end_idx >= last_end_idx

\* no step after a None moves the cursor of the iterator that returned it
FusedStep ==
    /\ \A k \in Iters :
          status[k] = "none" =>
              /\ k \in DOMAIN status' /\ status'[k] = "none"
              /\ curves'[k].idx = curves[k].idx
              /\ out'[k] = out[k]
    /\ contour_none =>
          /\ contour_none'
          /\ contour_start' = contour_start
          /\ contour_end_idx' = contour_end_idx
          /\ Len(curves') = Len(curves)

\* C18: both iterators are fused: once CurveIterator::next() has returned
\* None (idx >= L or the early stop), every later call returns None, yields
\* nothing and leaves idx unchanged; once ContourIterator::next() has returned
\* None, every later call returns None and leaves contour_start and the
\* end-offset cursor unchanged.
C18_Fused == [] FusedState /\ [][FusedStep]_vars

\* None has been returned by the contour iterator, by a curve iterator at its
\* early stop and by a curve iterator whose cursor reached L
C18_Witness ==
    /\ contour_none
    /\ \E k \in Iters : status[k] = "none" /\ curves[k].idx = curves[k].length - 1
    /\ \E k \in Iters : status[k] = "none" /\ curves[k].idx >= curves[k].length

\* ------------------------------------------------------------------- C19

\* C19: cursor invariant: in a decode that has not aborted (a violated
\* cubic-pattern assertion counts as an abort) idx never decreases (every
\* yield moves it forward from where the previous one left it) and stays
\* within [-1, L]; when next() returns None, idx is exactly L if point 0 is
\* not a quadratic control and exactly L-1 if it is, so the early stop is
\* taken only in contours whose point 0 is a quadratic control.
C19_CursorInvariant ==
    \A k \in Iters :
        LET it == curves[k] IN
        (status[k] /= "abort" /\ AssertionsHeld(k)) =>
            /\ -1 <= it.idx /\ it.idx <= it.length
            /\ \A n \in Yields(k) :
                  /\ out[k][n].shift >= 1
                  /\ out[k][n].from >= -1
                  /\ out[k][n].from + out[k][n].shift <= it.length
                  /\ n < Len(out[k]) => out[k][n + 1].from = out[k][n].from + out[k][n].shift
                  /\ n = Len(out[k]) => it.idx = out[k][n].from + out[k][n].shift
            /\ status[k] = "none" =>
                  it.idx = (IF FirstClass(k) = TAG_BEZIER2 THEN it.length - 1 ELSE it.length)

\* None has been returned at idx = L-1 in a contour that starts on a quadratic
\* control and at idx = L in a contour that starts on an on-curve point
C19_Witness ==
    /\ \E k \in Iters :
          /\ status[k] = "none" /\ AssertionsHeld(k) /\ FirstClass(k) = TAG_BEZIER2
          /\ curves[k].length >= 2 /\ curves[k].idx = curves[k].length - 1
    /\ \E k \in Iters :
          /\ status[k] = "none" /\ AssertionsHeld(k) /\ FirstClass(k) = TAG_ONCURVE
          /\ curves[k].idx = curves[k].length

============================================================================
